---- MODULE Spec2Model ----
(***************************************************************************)
(* Model of the go-money Money value (money.go): construction, currency    *)
(* safe comparison and arithmetic, rounding, Split and Allocate, and the   *)
(* decimal-string parser NewFromString with the Amount() rendering it is   *)
(* the inverse of.                                                         *)
(*                                                                         *)
(* Texts are sequences of one-character strings.  A Money is a record      *)
(* [amount, currency, nil]: currency is the code of the registry record    *)
(* the Money points to, nil marks the nil *Money.  Amounts stay far below  *)
(* the int64 limits, so the int64 operations of the source are modelled    *)
(* by the integer operations they compute when nothing overflows.          *)
(***************************************************************************)
EXTENDS Integers, Sequences, FiniteSets, TLC

VARIABLES registry, m, held, op, arg, ret, heap, hop, hrecv, hres

(* heap is the store of the Money objects that exist, an object's          *)
(* reference its index; hop, hrecv and hres are the last operation on      *)
(* objects, its receiver and the references it returned.                   *)
objs == <<heap, hop, hrecv, hres>>

(* held is the currency record the field m.currency points to.             *)
call == <<registry, m, held, op, arg, ret>>

vars == <<registry, m, held, op, arg, ret, heap, hop, hrecv, hres>>

----------------------------------------------------------------------------
(* Bounds of the model                                                     *)

MaxAmount == 12
MaxDelta  == 1
MaxSplit  == 4
MaxRatio  == 3
MaxRatios == 3
MaxTextLen == 4
MaxMultiplier == 2
MaxObjects == 3
MaxObjectAmount == 2
IntBits == 6

(* Amounts around the rounding boundaries of fractions 1, 2 and 3, and     *)
(* amounts of a thousand major units and more.                             *)
SampleAmounts ==
    {49, 50, 51, 99, 100, 101, 125, 149, 150, 151, 175, 349, 351,
     499, 500, 501, 1500, 12555, 100000, 123456, 1234567}

Amounts ==
    (-MaxAmount .. MaxAmount) \cup SampleAmounts \cup {-a : a \in SampleAmounts}

Deltas == -MaxDelta .. MaxDelta

SplitCounts == -1 .. MaxSplit

Ratios == -1 .. MaxRatio

RatioLists == UNION {[1 .. k -> Ratios] : k \in 0 .. MaxRatios}

Alphabet == {"0", "1", "-", "+", ".", ",", " "}

Texts == UNION {[1 .. k -> Alphabet] : k \in 0 .. MaxTextLen}

Multipliers == -1 .. MaxMultiplier

(* The texts and codes the string fields of a payload carry.               *)
JSONTexts ==
    {<<>>, <<"1">>, <<"-", "1">>, <<"1", ".", "1">>, <<"0", ".", "1", "1">>,
     <<"1", ",", "0">>, <<"-">>}

JSONCodes == {"", "USD", "TWD", "DEC", "XXX"}

ObjectAmounts == -MaxObjectAmount .. MaxObjectAmount

ObjectCodes == {"USD", "TWD"}

ObjectSplitCounts == {0, 2, 3}

ObjectRatioLists == {<<>>, <<1, -1>>, <<0, 0>>, <<1, 1>>, <<2, 1>>, <<1, 1, 1>>}

----------------------------------------------------------------------------
(* Currency registry                                                       *)

Currency(code, grapheme, template, decimal, thousand, fraction) ==
    [Code |-> code, Grapheme |-> grapheme, Template |-> template,
     Decimal |-> decimal, Thousand |-> thousand, Fraction |-> fraction]

(* The records the registry holds: two built-in currencies and two added   *)
(* with AddCurrency, covering fractions 0..3, an empty thousand separator  *)
(* and a decimal comma.                                                    *)
currencies ==
    [c \in {"USD", "TWD", "MIL", "DEC"} |->
        CASE c = "USD" -> Currency("USD", <<"$">>, <<"$", "1">>, ".", ",", 2)
          [] c = "TWD" -> Currency("TWD", <<"N", "T", "$">>, <<"$", "1">>, ".", ",", 0)
          [] c = "MIL" -> Currency("MIL", <<"$">>, <<"1", " ", "$">>, ".", "", 3)
          [] c = "DEC" -> Currency("DEC", <<"d">>, <<"1", " ", "$">>, ",", ".", 1)]

Codes == DOMAIN currencies

(* The records AddCurrency writes over a registered code: another          *)
(* fraction, template, grapheme and separators.                            *)
Upserts(code) ==
    {Currency(code, <<"d">>, <<"1", " ", "$">>, ",", ".", 1),
     Currency(code, <<"N", "T", "$">>, <<"$", "1">>, ".", ",", 3)}

(* A code no record is registered for.                                     *)
UnknownCode == "XXX"

CodeInputs == Codes \cup {UnknownCode}

(* GetCurrency: the registered record, found or not.                       *)
GetCurrency(reg, code) ==
    IF code \in DOMAIN reg
      THEN [found |-> TRUE, code |-> code]
      ELSE [found |-> FALSE, code |-> ""]

(* Currency.equals: two records are the same currency when the codes are.  *)
equals(c, oc) == c = oc

(* newCurrency: a record that carries a code only.                         *)
newCurrency(code) == Currency(code, <<>>, <<>>, "", "", 0)

(* Currency.get answering from the registry: the record registered now     *)
(* for the code.                                                           *)
getRegistered(c) == IF c.Code \in DOMAIN registry THEN registry[c.Code] ELSE c

(* Currency.get: the record the Money captured at construction; a record   *)
(* that carries a code only is completed with the default format.          *)
get(c) ==
    IF c.Template = <<>>
      THEN Currency(c.Code, <<>>, <<"1", "$">>, ".", ",", 2)
      ELSE c

----------------------------------------------------------------------------
(* Money values                                                            *)

Money(amount, code) == [amount |-> amount, currency |-> code, nil |-> FALSE]

NilMoney == [amount |-> 0, currency |-> "", nil |-> TRUE]

(* The currency field of a Money that points to no record.                 *)
NilCurrency == "<nil>"

(* Money{}: amount 0 and a nil currency.                                   *)
ZeroMoney == [amount |-> 0, currency |-> NilCurrency, nil |-> FALSE]

NilList == [nil |-> TRUE, items |-> <<>>]

List(items) == [nil |-> FALSE, items |-> items]

NoErr == ""

ErrCurrencyMismatch == "currencies don't match"

ErrInvalidCurrency == "invalid currency"

ErrInvalidAmount == "invalid amount"

ErrInvalidJSON == "invalid json"

ErrSplit == "split must be higher than zero"

ErrNoRatios == "no ratios specified"

ErrNegativeRatio == "negative ratios not allowed"

PanicIndex == "panic: index out of range"

(* A field of a decoded JSON object: absent, a value that is not a string  *)
(* (a number, null, ...), or a string.                                     *)
Absent == [kind |-> "absent", text |-> <<>>]

NotString == [kind |-> "other", text |-> <<>>]

String(text) == [kind |-> "string", text |-> text]

Payload(amount, currency) == [amount |-> amount, currency |-> currency]

NoPayload == Payload(Absent, Absent)

NoArg == [om |-> NilMoney, n |-> 0, rs |-> <<>>, text |-> <<>>, code |-> "", from |-> "",
          json |-> NoPayload]

(* A float64 result is kept as the two operands of its division.           *)
Float(num, den) == [num |-> num, den |-> den]

NoRet == [err |-> NoErr, money |-> NilMoney, bool |-> FALSE, int |-> 0,
          list |-> NilList, text |-> <<>>, float |-> Float(0, 1), json |-> NoPayload]

Fraction(reg, mm) == reg[mm.currency].Fraction

----------------------------------------------------------------------------
(* Arithmetic engine (calculator)                                          *)

absolute(a) == IF a < 0 THEN -a ELSE a

negative(a) == IF a > 0 THEN -a ELSE a

add(a, b) == a + b

subtract(a, b) == a - b

multiply(a, k) == a * k

(* Division truncating toward zero, remainder with the dividend's sign.    *)
divide(a, n) == IF a >= 0 THEN a \div n ELSE -((-a) \div n)

modulus(a, n) == a - n * divide(a, n)

RECURSIVE Pow10(_)
Pow10(e) == IF e = 0 THEN 1 ELSE 10 * Pow10(e - 1)

(* Nearest multiple of 10^e, a magnitude at the half boundary goes outward.*)
round(a, e) ==
    LET exp   == Pow10(e)
        absam == absolute(a)
        rem   == absam % exp
        up    == IF 2 * rem >= exp /\ rem > 0 THEN absam - rem + exp ELSE absam - rem
    IN  IF a < 0 THEN -up ELSE up

allocate(a, r, s) == IF s = 0 THEN 0 ELSE divide(a * r, s)

----------------------------------------------------------------------------
(* Comparison                                                              *)

SameCurrency(mm, om) == equals(mm.currency, om.currency)

(* assertSameCurrency without the check.                                   *)
assertSameCurrencyNever(mm, om) == NoErr

assertSameCurrency(mm, om) ==
    IF ~SameCurrency(mm, om) THEN ErrCurrencyMismatch ELSE NoErr

(* compare with the two outcomes exchanged.                                *)
compareSwapped(mm, om) ==
    CASE mm.amount > om.amount -> -1
      [] mm.amount < om.amount -> 1
      [] OTHER -> 0

compare(mm, om) ==
    CASE mm.amount > om.amount -> 1
      [] mm.amount < om.amount -> -1
      [] OTHER -> 0

Equals(mm, om) ==
    IF assertSameCurrency(mm, om) # NoErr
      THEN [NoRet EXCEPT !.bool = FALSE, !.err = assertSameCurrency(mm, om)]
      ELSE [NoRet EXCEPT !.bool = (compare(mm, om) = 0)]

GreaterThan(mm, om) ==
    IF assertSameCurrency(mm, om) # NoErr
      THEN [NoRet EXCEPT !.bool = FALSE, !.err = assertSameCurrency(mm, om)]
      ELSE [NoRet EXCEPT !.bool = (compare(mm, om) = 1)]

GreaterThanOrEqual(mm, om) ==
    IF assertSameCurrency(mm, om) # NoErr
      THEN [NoRet EXCEPT !.bool = FALSE, !.err = assertSameCurrency(mm, om)]
      ELSE [NoRet EXCEPT !.bool = (compare(mm, om) >= 0)]

LessThan(mm, om) ==
    IF assertSameCurrency(mm, om) # NoErr
      THEN [NoRet EXCEPT !.bool = FALSE, !.err = assertSameCurrency(mm, om)]
      ELSE [NoRet EXCEPT !.bool = (compare(mm, om) = -1)]

LessThanOrEqual(mm, om) ==
    IF assertSameCurrency(mm, om) # NoErr
      THEN [NoRet EXCEPT !.bool = FALSE, !.err = assertSameCurrency(mm, om)]
      ELSE [NoRet EXCEPT !.bool = (compare(mm, om) <= 0)]

Compare(mm, om) ==
    IF assertSameCurrency(mm, om) # NoErr
      THEN [NoRet EXCEPT !.int = mm.amount, !.err = assertSameCurrency(mm, om)]
      ELSE [NoRet EXCEPT !.int = compare(mm, om)]

----------------------------------------------------------------------------
(* Arithmetic on Money                                                     *)

Absolute(mm) ==
    [NoRet EXCEPT !.money = Money(absolute(mm.amount), mm.currency)]

(* Negative that flips the sign of the amount.                             *)
NegativeFlipped(mm) ==
    [NoRet EXCEPT !.money = Money(0 - mm.amount, mm.currency)]

Negative(mm) ==
    [NoRet EXCEPT !.money = Money(negative(mm.amount), mm.currency)]

Multiply(mm, mul) ==
    [NoRet EXCEPT !.money = Money(multiply(mm.amount, mul), mm.currency)]

Add(mm, om) ==
    IF assertSameCurrency(mm, om) # NoErr
      THEN [NoRet EXCEPT !.err = assertSameCurrency(mm, om)]
      ELSE [NoRet EXCEPT !.money = Money(add(mm.amount, om.amount), mm.currency)]

Subtract(mm, om) ==
    IF assertSameCurrency(mm, om) # NoErr
      THEN [NoRet EXCEPT !.err = assertSameCurrency(mm, om)]
      ELSE [NoRet EXCEPT !.money = Money(subtract(mm.amount, om.amount), mm.currency)]

(* Round that ignores the currency's fraction.                            *)
RoundUnits(reg, mm) ==
    [NoRet EXCEPT !.money = Money(round(mm.amount, 0), mm.currency)]

Round(reg, mm) ==
    [NoRet EXCEPT !.money = Money(round(mm.amount, Fraction(reg, mm)), mm.currency)]

(* Split: n shares of amount/n, then one unit of the amount's sign added   *)
(* to the parties 0 .. l-1, l the magnitude of the remainder; the loop     *)
(* indexes past the slice when l exceeds n.                                *)
SplitUnsigned(mm, n) ==
    IF n <= 0
      THEN [NoRet EXCEPT !.err = ErrSplit]
      ELSE LET a  == divide(mm.amount, n)
               l  == absolute(modulus(mm.amount, n))
           IN  [NoRet EXCEPT !.list = List(
                  [p \in 1 .. n |->
                     Money(IF p <= l THEN add(a, 1) ELSE a, mm.currency)])]

SplitLast(mm, n) ==
    IF n <= 0
      THEN [NoRet EXCEPT !.err = ErrSplit]
      ELSE LET a  == divide(mm.amount, n)
               l  == absolute(modulus(mm.amount, n))
               v  == IF mm.amount < 0 THEN -1 ELSE 1
           IN  [NoRet EXCEPT !.list = List(
                  [p \in 1 .. n |->
                     Money(IF p > n - l THEN add(a, v) ELSE a, mm.currency)])]

Split(mm, n) ==
    IF n <= 0
      THEN [NoRet EXCEPT !.err = ErrSplit]
      ELSE LET a  == divide(mm.amount, n)
               r  == modulus(mm.amount, n)
               l  == absolute(r)
               v  == IF mm.amount < 0 THEN -1 ELSE 1
               ms == [p \in 1 .. n |->
                        Money(IF p <= l THEN add(a, v) ELSE a, mm.currency)]
           IN  IF l > n
                 THEN [NoRet EXCEPT !.err = PanicIndex]
                 ELSE [NoRet EXCEPT !.list = List(ms)]

RECURSIVE SumRatios(_)
SumRatios(rs) == IF rs = <<>> THEN 0 ELSE Head(rs) + SumRatios(Tail(rs))

RECURSIVE SumAmounts(_)
SumAmounts(ms) == IF ms = <<>> THEN 0 ELSE Head(ms).amount + SumAmounts(Tail(ms))

(* The shares of Allocate without the leftover handed out.                 *)
AllocatePartiesNoLeftover(mm, rs) ==
    [NoRet EXCEPT !.list = List(
       [p \in 1 .. Len(rs) |->
          Money(allocate(mm.amount, rs[p], SumRatios(rs)), mm.currency)])]

(* Allocate that hands the leftover to the last parties.                   *)
AllocatePartiesLast(mm, rs) ==
    LET sum   == SumRatios(rs)
        ms    == [p \in 1 .. Len(rs) |->
                    Money(allocate(mm.amount, rs[p], sum), mm.currency)]
        lo    == mm.amount - SumAmounts(ms)
        sub   == IF lo < 0 THEN -1 ELSE 1
        cnt   == absolute(lo)
    IN  IF sum = 0
          THEN [NoRet EXCEPT !.list = List(ms)]
          ELSE IF cnt > Len(rs)
            THEN [NoRet EXCEPT !.err = PanicIndex]
            ELSE [NoRet EXCEPT !.list = List(
                    [p \in 1 .. Len(rs) |->
                       IF p > Len(rs) - cnt
                         THEN Money(add(ms[p].amount, sub), mm.currency)
                         ELSE ms[p]])]

(* Allocate after its argument checks: the shares allocate(amount, r, sum) *)
(* in ratio order; a zero ratio sum returns them as they are; otherwise    *)
(* the leftover amount - total is handed out one unit at a time to the     *)
(* parties 0, 1, ..., and the loop indexes past the slice when the         *)
(* leftover exceeds the number of parties.                                 *)
AllocateParties(mm, rs) ==
    LET sum   == SumRatios(rs)
        ms    == [p \in 1 .. Len(rs) |->
                    Money(allocate(mm.amount, rs[p], sum), mm.currency)]
        total == SumAmounts(ms)
        lo    == mm.amount - total
        sub   == IF lo < 0 THEN -1 ELSE 1
        cnt   == absolute(lo)
    IN  IF sum = 0
          THEN [NoRet EXCEPT !.list = List(ms)]
          ELSE IF cnt > Len(rs)
            THEN [NoRet EXCEPT !.err = PanicIndex]
            ELSE [NoRet EXCEPT !.list = List(
                    [p \in 1 .. Len(rs) |->
                       IF p <= cnt
                         THEN Money(add(ms[p].amount, sub), mm.currency)
                         ELSE ms[p]])]

(* Allocate that checks the sign of the first ratio only and takes the     *)
(* other negative ratios for 0.                                            *)
AllocateFirstRatioChecked(mm, rs) ==
    IF Len(rs) = 0
      THEN [NoRet EXCEPT !.err = ErrNoRatios]
      ELSE IF rs[1] < 0
        THEN [NoRet EXCEPT !.err = ErrNegativeRatio]
        ELSE AllocateParties(mm, [p \in 1 .. Len(rs) |-> IF rs[p] < 0 THEN 0 ELSE rs[p]])

(* Allocate that hands the leftover to the first parties whose ratio is    *)
(* not 0.                                                                  *)
AllocateSkippingZero(mm, rs) ==
    IF Len(rs) = 0
      THEN [NoRet EXCEPT !.err = ErrNoRatios]
      ELSE IF \E i \in 1 .. Len(rs) : rs[i] < 0
        THEN [NoRet EXCEPT !.err = ErrNegativeRatio]
        ELSE LET base == AllocatePartiesNoLeftover(mm, rs).list.items
                 lo   == mm.amount - SumAmounts(base)
                 sub  == IF lo < 0 THEN -1 ELSE 1
                 rank == [p \in 1 .. Len(rs) |->
                            Cardinality({i \in 1 .. p : rs[i] > 0})]
             IN  [NoRet EXCEPT !.list = List(
                    [p \in 1 .. Len(rs) |->
                       IF rs[p] > 0 /\ rank[p] <= absolute(lo)
                         THEN Money(add(base[p].amount, sub), mm.currency)
                         ELSE base[p]])]

(* Allocate: no ratio and a negative ratio are errors.                     *)
Allocate(mm, rs) ==
    IF Len(rs) = 0
      THEN [NoRet EXCEPT !.err = ErrNoRatios]
      ELSE IF \E i \in 1 .. Len(rs) : rs[i] < 0
        THEN [NoRet EXCEPT !.err = ErrNegativeRatio]
        ELSE AllocateParties(mm, rs)

----------------------------------------------------------------------------
(* Texts                                                                   *)

DigitChars == <<"0", "1", "2", "3", "4", "5", "6", "7", "8", "9">>

IsDigit(c) == \E d \in 1 .. 10 : DigitChars[d] = c

DigitValue(c) == (CHOOSE d \in 1 .. 10 : DigitChars[d] = c) - 1

(* strings.Index for a one-character separator: the 1-based position of    *)
(* its first occurrence, 0 when there is none (Go's -1).                   *)
Index(text, sep) ==
    IF \E i \in 1 .. Len(text) : text[i] = sep
      THEN CHOOSE i \in 1 .. Len(text) :
             /\ text[i] = sep
             /\ \A j \in 1 .. i - 1 : text[j] # sep
      ELSE 0

RECURSIVE DigitsValue(_)
DigitsValue(ds) ==
    IF ds = <<>> THEN 0
    ELSE 10 * DigitsValue(SubSeq(ds, 1, Len(ds) - 1)) + DigitValue(ds[Len(ds)])

(* strconv.ParseInt(s, 10, 64): an optional sign "+" or "-", then one or   *)
(* more decimal digits and nothing else.                                   *)
ParseInt(s) ==
    LET signed == s # <<>> /\ s[1] \in {"+", "-"}
        ds     == IF signed THEN Tail(s) ELSE s
    IN  IF ds = <<>> \/ \E i \in 1 .. Len(ds) : ~IsDigit(ds[i])
          THEN [ok |-> FALSE, value |-> 0]
          ELSE [ok |-> TRUE,
                value |-> IF signed /\ s[1] = "-" THEN -DigitsValue(ds) ELSE DigitsValue(ds)]

Min(a, b) == IF a < b THEN a ELSE b

(* NewFromString without the padding of the missing fraction digits.      *)
NewFromStringNoPad(reg, amount, code) ==
    IF ~GetCurrency(reg, code).found
      THEN [NoRet EXCEPT !.err = ErrInvalidCurrency]
      ELSE LET fraction   == reg[code].Fraction
               pointIndex == Index(amount, reg[code].Decimal)
               decimals   == IF pointIndex # 0
                               THEN Min(Len(amount) - pointIndex, fraction)
                               ELSE 0
               toParse    == IF pointIndex # 0
                               THEN SubSeq(amount, 1, pointIndex - 1)
                                    \o SubSeq(amount, pointIndex + 1, pointIndex + decimals)
                               ELSE amount
               parsed     == ParseInt(toParse)
           IN  IF ~parsed.ok
                 THEN [NoRet EXCEPT !.err = ErrInvalidAmount]
                 ELSE [NoRet EXCEPT !.money =
                         Money(parsed.value, code)]

(* NewFromString counting one fraction digit too few.                      *)
NewFromStringShort(reg, amount, code) ==
    IF ~GetCurrency(reg, code).found
      THEN [NoRet EXCEPT !.err = ErrInvalidCurrency]
      ELSE LET fraction   == reg[code].Fraction
               pointIndex == Index(amount, reg[code].Decimal)
               decimals   == IF pointIndex # 0
                               THEN Min(Len(amount) - pointIndex - 1, fraction)
                               ELSE 0
               toParse    == IF pointIndex # 0
                               THEN SubSeq(amount, 1, pointIndex - 1)
                                    \o SubSeq(amount, pointIndex + 1, pointIndex + decimals)
                               ELSE amount
               parsed     == ParseInt(toParse)
           IN  IF ~parsed.ok
                 THEN [NoRet EXCEPT !.err = ErrInvalidAmount]
                 ELSE [NoRet EXCEPT !.money =
                         Money(parsed.value * Pow10(fraction - decimals), code)]

(* NewFromString: the text up to the decimal separator followed by at most *)
(* Fraction of the characters after it is parsed as an integer, and the    *)
(* result is multiplied by 10 for every fraction digit that is missing.    *)
NewFromString(reg, amount, code) ==
    IF ~GetCurrency(reg, code).found
      THEN [NoRet EXCEPT !.err = ErrInvalidCurrency]
      ELSE LET fraction   == reg[code].Fraction
               pointIndex == Index(amount, reg[code].Decimal)
               decimals   == IF pointIndex # 0
                               THEN Min(Len(amount) - pointIndex, fraction)
                               ELSE 0
               toParse    == IF pointIndex # 0
                               THEN SubSeq(amount, 1, pointIndex - 1)
                                    \o SubSeq(amount, pointIndex + 1, pointIndex + decimals)
                               ELSE amount
               parsed     == ParseInt(toParse)
           IN  IF ~parsed.ok
                 THEN [NoRet EXCEPT !.err = ErrInvalidAmount]
                 ELSE [NoRet EXCEPT !.money =
                         Money(parsed.value * Pow10(fraction - decimals), code)]

----------------------------------------------------------------------------
(* Formatter                                                               *)

RECURSIVE IntToDigits(_)
IntToDigits(n) ==
    IF n < 10 THEN <<DigitChars[n + 1]>>
    ELSE IntToDigits(n \div 10) \o <<DigitChars[(n % 10) + 1]>>

RECURSIVE PadLeft(_, _)
PadLeft(ds, width) == IF Len(ds) >= width THEN ds ELSE PadLeft(<<"0">> \o ds, width)

(* The integer part left without thousand separators.                      *)
Ungrouped(ds, thousand) == ds

(* The thousand separator every 3 digits from the right of the integer     *)
(* part; no grouping when the separator is empty.                          *)
RECURSIVE Group(_, _)
Group(ds, thousand) ==
    IF thousand = "" \/ Len(ds) <= 3 THEN ds
    ELSE Group(SubSeq(ds, 1, Len(ds) - 3), thousand)
         \o <<thousand>> \o SubSeq(ds, Len(ds) - 2, Len(ds))

(* The numeric text of |amount| for a currency record.                     *)
Numeric(cur, amount) ==
    LET sa  == PadLeft(IntToDigits(absolute(amount)), cur.Fraction + 1)
        int == SubSeq(sa, 1, Len(sa) - cur.Fraction)
        fr  == SubSeq(sa, Len(sa) - cur.Fraction + 1, Len(sa))
    IN  IF cur.Fraction > 0
          THEN Group(int, cur.Thousand) \o <<cur.Decimal>> \o fr
          ELSE Group(int, cur.Thousand)

RECURSIVE Substitute(_, _, _)
Substitute(template, placeholder, by) ==
    IF template = <<>> THEN <<>>
    ELSE IF Head(template) = placeholder
      THEN by \o Tail(template)
      ELSE <<Head(template)>> \o Substitute(Tail(template), placeholder, by)

RECURSIVE TrimSpace(_)
TrimSpace(s) ==
    IF s = <<>> THEN s
    ELSE IF Head(s) = " " THEN TrimSpace(Tail(s))
    ELSE IF s[Len(s)] = " " THEN TrimSpace(SubSeq(s, 1, Len(s) - 1))
    ELSE s

(* FormatAmount: the template with the amount placeholder replaced by the  *)
(* numeric text and the grapheme placeholder removed, trimmed, behind the  *)
(* sign.                                                                   *)
FormatAmount(cur, amount) ==
    LET sa == TrimSpace(Substitute(Substitute(cur.Template, "$", <<>>),
                                   "1", Numeric(cur, amount)))
    IN  IF amount < 0 THEN <<"-">> \o sa ELSE sa

(* Format: the template with the amount placeholder replaced by the       *)
(* numeric text and the grapheme placeholder by the grapheme, behind the   *)
(* sign.                                                                   *)
Format(cur, amount) ==
    LET sa == Substitute(Substitute(cur.Template, "1", Numeric(cur, amount)),
                         "$", cur.Grapheme)
    IN  IF amount < 0 THEN <<"-">> \o sa ELSE sa

(* ToMajorUnits: float64(amount) / 10^fraction.                            *)
ToMajorUnits(cur, amount) == Float(amount, Pow10(cur.Fraction))

(* Money.Amount: the receiver's amount through its currency's formatter.   *)
Amount(reg, mm) ==
    [NoRet EXCEPT !.text = FormatAmount(get(reg[mm.currency]), mm.amount)]

Display(reg, mm) ==
    [NoRet EXCEPT !.text = Format(get(reg[mm.currency]), mm.amount)]

AsMajorUnits(reg, mm) ==
    [NoRet EXCEPT !.float = ToMajorUnits(get(reg[mm.currency]), mm.amount)]

----------------------------------------------------------------------------
(* Construction                                                            *)

New(reg, amount, code) ==
    IF ~GetCurrency(reg, code).found
      THEN [NoRet EXCEPT !.err = ErrInvalidCurrency]
      ELSE [NoRet EXCEPT !.money = Money(amount, code)]

----------------------------------------------------------------------------
(* Fixed-width amounts: int64 scaled down to IntBits bits, two's           *)
(* complement, so that sums, differences and products wrap as Go's do.     *)

RECURSIVE Pow2(_)
Pow2(e) == IF e = 0 THEN 1 ELSE 2 * Pow2(e - 1)

MinInt == 0 - Pow2(IntBits - 1)

MaxInt == Pow2(IntBits - 1) - 1

Ints == MinInt .. MaxInt

Wrap(x) == ((x - MinInt) % Pow2(IntBits)) + MinInt

(* for p := 0; l != 0; p++ { ms[p].amount = add(ms[p].amount, v);         *)
(* l -= step }: the shares after the loop, or the panic of ms[p] with p    *)
(* past the slice.                                                         *)
RECURSIVE LeftoverLoop(_, _, _, _, _)
LeftoverLoop(ms, p, l, step, v) ==
    IF l = 0 THEN [NoRet EXCEPT !.list = List(ms)]
    ELSE IF p > Len(ms) THEN [NoRet EXCEPT !.err = PanicIndex]
    ELSE LeftoverLoop([ms EXCEPT ![p].amount = Wrap(add(@, v))], p + 1,
                      Wrap(l - step), step, v)

(* Split on fixed-width amounts.                                           *)
SplitInt(mm, n) ==
    IF n <= 0
      THEN [NoRet EXCEPT !.err = ErrSplit]
      ELSE LET a  == divide(mm.amount, n)
               ms == [i \in 1 .. n |-> Money(a, mm.currency)]
               r  == modulus(mm.amount, n)
               l  == Wrap(absolute(r))
               v  == IF mm.amount < 0 THEN -1 ELSE 1
           IN  LeftoverLoop(ms, 1, l, 1, v)

(* calculator.allocate with the product amount * ratio in the amount's     *)
(* width.                                                                  *)
allocateInt(a, r, s) == IF s = 0 THEN 0 ELSE divide(Wrap(a * r), s)

RECURSIVE SumAmountsInt(_)
SumAmountsInt(ms) ==
    IF ms = <<>> THEN 0
    ELSE Wrap(SumAmountsInt(SubSeq(ms, 1, Len(ms) - 1)) + ms[Len(ms)].amount)

(* Allocate on fixed-width amounts.                                        *)
AllocateInt(mm, rs) ==
    IF Len(rs) = 0
      THEN [NoRet EXCEPT !.err = ErrNoRatios]
      ELSE IF \E i \in 1 .. Len(rs) : rs[i] < 0
        THEN [NoRet EXCEPT !.err = ErrNegativeRatio]
        ELSE LET sum   == SumRatios(rs)
                 ms    == [p \in 1 .. Len(rs) |->
                             Money(allocateInt(mm.amount, rs[p], sum), mm.currency)]
                 total == SumAmountsInt(ms)
                 lo    == Wrap(mm.amount - total)
                 sub   == IF lo < 0 THEN -1 ELSE 1
             IN  IF sum = 0
                   THEN [NoRet EXCEPT !.list = List(ms)]
                   ELSE LeftoverLoop(ms, 1, lo, sub, sub)

----------------------------------------------------------------------------
(* Default JSON decoding and encoding                                      *)

Payloads ==
    {Payload(a, c) :
        a \in {Absent, NotString} \cup {String(t) : t \in JSONTexts},
        c \in {Absent, NotString} \cup {String(code) : code \in JSONCodes}}

(* unmarshalJSON that reads a field that is not a string as "".            *)
unmarshalJSONUnchecked(reg, target, data) ==
    LET amount   == data.amount.text
        currency == IF data.currency.kind = "string" THEN data.currency.text ELSE ""
        ref      == IF amount = <<>> /\ currency = ""
                      THEN [NoRet EXCEPT !.money = ZeroMoney]
                      ELSE NewFromString(reg, amount, currency)
    IN  IF ref.err # NoErr
          THEN [err |-> ref.err, target |-> target]
          ELSE [err |-> NoErr, target |-> ref.money]

(* unmarshalJSON: the error returned and what the target *m holds after.   *)
unmarshalJSON(reg, target, data) ==
    IF data.amount.kind = "other" \/ data.currency.kind = "other"
      THEN [err |-> ErrInvalidJSON, target |-> target]
      ELSE LET amount   == IF data.amount.kind = "string" THEN data.amount.text ELSE <<>>
               currency == IF data.currency.kind = "string" THEN data.currency.text ELSE ""
               ref      == IF amount = <<>> /\ currency = ""
                             THEN [NoRet EXCEPT !.money = ZeroMoney]
                             ELSE NewFromString(reg, amount, currency)
           IN  IF ref.err # NoErr
                 THEN [err |-> ref.err, target |-> target]
                 ELSE [err |-> NoErr, target |-> ref.money]

(* marshalJSON: the amount as Amount() renders it and the currency code,   *)
(* both as strings; the zero Money is given the currency newCurrency("").  *)
marshalJSON(reg, mm) ==
    IF mm = ZeroMoney
      THEN Payload(String(Amount(("" :> get(newCurrency(""))), Money(0, "")).text),
                   String(""))
      ELSE Payload(String(Amount(reg, mm).text), String(mm.currency))

----------------------------------------------------------------------------
(* State machine: a Money is constructed, then one operation is applied.   *)

Init ==
    /\ registry = currencies
    /\ m = NilMoney
    /\ op = "init"
    /\ arg = NoArg
    /\ ret = NoRet
    /\ held = newCurrency("")
    /\ heap = <<>>
    /\ hop = "init"
    /\ hrecv = 0
    /\ hres = <<>>

CallNew ==
    /\ op = "init"
    /\ \E a \in Amounts, c \in CodeInputs :
         /\ m' = New(registry, a, c).money
         /\ ret' = New(registry, a, c)
         /\ arg' = [NoArg EXCEPT !.n = a, !.code = c]
         /\ held' = IF GetCurrency(registry, c).found THEN registry[c] ELSE held
    /\ op' = "New"
    /\ UNCHANGED registry
    /\ UNCHANGED objs

(* AddCurrency: a registered code is overwritten with another record once  *)
(* the Money exists.                                                       *)
AddCurrency ==
    /\ op \in {"New", "AddCurrency"}
    /\ ~m.nil
    /\ \E code \in Codes : \E c \in Upserts(code) :
         /\ registry' = [registry EXCEPT ![code] = c]
         /\ arg' = [NoArg EXCEPT !.code = code]
    /\ op' = "AddCurrency"
    /\ ret' = NoRet
    /\ UNCHANGED <<m, held>>
    /\ UNCHANGED objs

Ready == op \in {"New", "AddCurrency"} /\ ~m.nil

(* The currency field of m: the record New captured, under m's code.       *)
Held == (m.currency :> held)

Others == {Money(m.amount + d, c) : d \in Deltas, c \in Codes}

CallEquals ==
    /\ Ready
    /\ \E om \in Others :
         /\ ret' = Equals(m, om)
         /\ arg' = [NoArg EXCEPT !.om = om]
    /\ op' = "Equals"
    /\ UNCHANGED <<registry, m, held>>
    /\ UNCHANGED objs

CallGreaterThan ==
    /\ Ready
    /\ \E om \in Others :
         /\ ret' = GreaterThan(m, om)
         /\ arg' = [NoArg EXCEPT !.om = om]
    /\ op' = "GreaterThan"
    /\ UNCHANGED <<registry, m, held>>
    /\ UNCHANGED objs

CallGreaterThanOrEqual ==
    /\ Ready
    /\ \E om \in Others :
         /\ ret' = GreaterThanOrEqual(m, om)
         /\ arg' = [NoArg EXCEPT !.om = om]
    /\ op' = "GreaterThanOrEqual"
    /\ UNCHANGED <<registry, m, held>>
    /\ UNCHANGED objs

CallLessThan ==
    /\ Ready
    /\ \E om \in Others :
         /\ ret' = LessThan(m, om)
         /\ arg' = [NoArg EXCEPT !.om = om]
    /\ op' = "LessThan"
    /\ UNCHANGED <<registry, m, held>>
    /\ UNCHANGED objs

CallLessThanOrEqual ==
    /\ Ready
    /\ \E om \in Others :
         /\ ret' = LessThanOrEqual(m, om)
         /\ arg' = [NoArg EXCEPT !.om = om]
    /\ op' = "LessThanOrEqual"
    /\ UNCHANGED <<registry, m, held>>
    /\ UNCHANGED objs

CallCompare ==
    /\ Ready
    /\ \E om \in Others :
         /\ ret' = Compare(m, om)
         /\ arg' = [NoArg EXCEPT !.om = om]
    /\ op' = "Compare"
    /\ UNCHANGED <<registry, m, held>>
    /\ UNCHANGED objs

CallAdd ==
    /\ Ready
    /\ \E om \in Others :
         /\ ret' = Add(m, om)
         /\ arg' = [NoArg EXCEPT !.om = om]
    /\ op' = "Add"
    /\ UNCHANGED <<registry, m, held>>
    /\ UNCHANGED objs

CallSubtract ==
    /\ Ready
    /\ \E om \in Others :
         /\ ret' = Subtract(m, om)
         /\ arg' = [NoArg EXCEPT !.om = om]
    /\ op' = "Subtract"
    /\ UNCHANGED <<registry, m, held>>
    /\ UNCHANGED objs

CallAbsolute ==
    /\ Ready
    /\ ret' = Absolute(m)
    /\ arg' = NoArg
    /\ op' = "Absolute"
    /\ UNCHANGED <<registry, m, held>>
    /\ UNCHANGED objs

CallNegative ==
    /\ Ready
    /\ ret' = Negative(m)
    /\ arg' = NoArg
    /\ op' = "Negative"
    /\ UNCHANGED <<registry, m, held>>
    /\ UNCHANGED objs

CallMultiply ==
    /\ Ready
    /\ \E mul \in Multipliers :
         /\ ret' = Multiply(m, mul)
         /\ arg' = [NoArg EXCEPT !.n = mul]
    /\ op' = "Multiply"
    /\ UNCHANGED <<registry, m, held>>
    /\ UNCHANGED objs

CallRound ==
    /\ Ready
    /\ ret' = Round(Held, m)
    /\ arg' = NoArg
    /\ op' = "Round"
    /\ UNCHANGED <<registry, m, held>>
    /\ UNCHANGED objs

CallSplit ==
    /\ Ready
    /\ \E n \in SplitCounts :
         /\ ret' = Split(m, n)
         /\ arg' = [NoArg EXCEPT !.n = n]
    /\ op' = "Split"
    /\ UNCHANGED <<registry, m, held>>
    /\ UNCHANGED objs

CallAllocate ==
    /\ Ready
    /\ \E rs \in RatioLists :
         /\ ret' = Allocate(m, rs)
         /\ arg' = [NoArg EXCEPT !.rs = rs]
    /\ op' = "Allocate"
    /\ UNCHANGED <<registry, m, held>>
    /\ UNCHANGED objs

CallNewFromString ==
    /\ op = "init"
    /\ \E text \in Texts, c \in CodeInputs :
         /\ ret' = NewFromString(registry, text, c)
         /\ arg' = [NoArg EXCEPT !.text = text, !.code = c, !.from = "caller"]
    /\ op' = "NewFromString"
    /\ UNCHANGED <<registry, m, held>>
    /\ UNCHANGED objs

CallAmount ==
    /\ Ready
    /\ ret' = Amount(Held, m)
    /\ arg' = NoArg
    /\ op' = "Amount"
    /\ UNCHANGED <<registry, m, held>>
    /\ UNCHANGED objs

CallDisplay ==
    /\ Ready
    /\ ret' = Display(Held, m)
    /\ arg' = NoArg
    /\ op' = "Display"
    /\ UNCHANGED <<registry, m, held>>
    /\ UNCHANGED objs

CallAsMajorUnits ==
    /\ Ready
    /\ ret' = AsMajorUnits(Held, m)
    /\ arg' = NoArg
    /\ op' = "AsMajorUnits"
    /\ UNCHANGED <<registry, m, held>>
    /\ UNCHANGED objs

(* var m Money: the zero value.                                            *)
ZeroValue ==
    /\ op = "init"
    /\ m' = ZeroMoney
    /\ held' = newCurrency("")
    /\ op' = "Zero"
    /\ arg' = NoArg
    /\ ret' = NoRet
    /\ UNCHANGED registry
    /\ UNCHANGED objs

(* json.Unmarshal(b, &m) with the default decoder, m a Money that exists.  *)
CallUnmarshalJSON ==
    /\ op \in {"New", "Zero"}
    /\ ~m.nil
    /\ \E data \in Payloads :
         LET r == unmarshalJSON(registry, m, data)
         IN  /\ m' = r.target
             /\ held' = IF r.err = NoErr /\ r.target.currency \in DOMAIN registry
                          THEN registry[r.target.currency]
                          ELSE IF r.err = NoErr THEN newCurrency("") ELSE held
             /\ ret' = [NoRet EXCEPT !.err = r.err]
             /\ arg' = [NoArg EXCEPT !.om = m, !.json = data]
    /\ op' = "UnmarshalJSON"
    /\ UNCHANGED registry
    /\ UNCHANGED objs

(* json.Marshal(m) with the default encoder.                               *)
CallMarshalJSON ==
    /\ op \in {"New", "Zero"}
    /\ ~m.nil
    /\ ret' = [NoRet EXCEPT !.json = marshalJSON(Held, m)]
    /\ arg' = NoArg
    /\ op' = "MarshalJSON"
    /\ UNCHANGED <<registry, m, held>>
    /\ UNCHANGED objs

(* The output of the default encoder decoded into a new Money, var d Money. *)
CallUnmarshalJSONOfMarshal ==
    /\ op = "MarshalJSON"
    /\ LET r == unmarshalJSON(registry, ZeroMoney, ret.json)
       IN  /\ ret' = [NoRet EXCEPT !.err = r.err, !.money = r.target]
           /\ arg' = [NoArg EXCEPT !.json = ret.json, !.from = "MarshalJSON"]
    /\ op' = "RoundTrip"
    /\ UNCHANGED <<registry, m, held>>
    /\ UNCHANGED objs

(* The text Amount() returned, parsed back for the receiver's currency.    *)
CallNewFromStringOfAmount ==
    /\ op = "Amount"
    /\ ret' = NewFromString(registry, ret.text, m.currency)
    /\ arg' = [NoArg EXCEPT !.text = ret.text, !.code = m.currency, !.from = "Amount"]
    /\ op' = "NewFromString"
    /\ UNCHANGED <<registry, m, held>>
    /\ UNCHANGED objs

Next ==
    \/ CallNew
    \/ CallNewFromString
    \/ CallAmount
    \/ CallDisplay
    \/ CallAsMajorUnits
    \/ CallNewFromStringOfAmount
    \/ CallEquals
    \/ CallGreaterThan
    \/ CallGreaterThanOrEqual
    \/ CallLessThan
    \/ CallLessThanOrEqual
    \/ CallCompare
    \/ CallAdd
    \/ CallSubtract
    \/ CallAbsolute
    \/ CallNegative
    \/ CallMultiply
    \/ CallRound
    \/ CallSplit
    \/ CallAllocate

Spec == Init /\ [][Next]_vars

(* A Money is constructed, the registry is written, the Money is read.     *)
NextRegistry ==
    \/ CallNew
    \/ AddCurrency
    \/ CallRound
    \/ CallAmount
    \/ CallDisplay
    \/ CallAsMajorUnits

SpecRegistry == Init /\ [][NextRegistry]_vars

(* A Money of any fixed-width amount is constructed, then split or         *)
(* allocated.                                                              *)
CallNewInt ==
    /\ op = "init"
    /\ \E a \in Ints, c \in CodeInputs :
         /\ m' = New(registry, a, c).money
         /\ ret' = New(registry, a, c)
         /\ arg' = [NoArg EXCEPT !.n = a, !.code = c]
         /\ held' = IF GetCurrency(registry, c).found THEN registry[c] ELSE held
    /\ op' = "New"
    /\ UNCHANGED registry
    /\ UNCHANGED objs

CallSplitInt ==
    /\ Ready
    /\ \E n \in SplitCounts :
         /\ ret' = SplitInt(m, n)
         /\ arg' = [NoArg EXCEPT !.n = n]
    /\ op' = "Split"
    /\ UNCHANGED <<registry, m, held>>
    /\ UNCHANGED objs

CallAllocateInt ==
    /\ Ready
    /\ \E rs \in RatioLists :
         /\ ret' = AllocateInt(m, rs)
         /\ arg' = [NoArg EXCEPT !.rs = rs]
    /\ op' = "Allocate"
    /\ UNCHANGED <<registry, m, held>>
    /\ UNCHANGED objs

NextInt ==
    \/ CallNewInt
    \/ CallSplitInt
    \/ CallAllocateInt

SpecInt == Init /\ [][NextInt]_vars

(* A Money is constructed or declared, then decoded into, or encoded and   *)
(* decoded again.                                                          *)
NextJSON ==
    \/ CallNew
    \/ ZeroValue
    \/ CallUnmarshalJSON
    \/ CallMarshalJSON
    \/ CallUnmarshalJSONOfMarshal

SpecJSON == Init /\ [][NextJSON]_vars

----------------------------------------------------------------------------
(* Money objects: the operations seen as operations on pointers.  Every   *)
(* operation builds its results with &Money{...}, a new object each time,  *)
(* and Split and Allocate then add the leftover to the objects ms[p].      *)

(* What an operation that returns r, a Money or nil, does to the objects.  *)
Returned(h, r) ==
    IF r.money.nil
      THEN [heap |-> h, refs |-> <<>>]
      ELSE [heap |-> Append(h, r.money), refs |-> <<Len(h) + 1>>]

(* for p := 0; l != 0; p++ { ms[p].amount = add(ms[p].amount, v); l-- }    *)
RECURSIVE AddLeftover(_, _, _, _, _)
AddLeftover(h, ms, p, l, v) ==
    IF l = 0 THEN h
    ELSE AddLeftover([h EXCEPT ![ms[p]].amount = add(@, v)], ms, p + 1, l - 1, v)

(* Split whose shares are one object.                                      *)
SplitObjectsShared(h, r, n) ==
    IF n <= 0
      THEN [heap |-> h, refs |-> <<>>]
      ELSE LET a  == divide(h[r].amount, n)
               ms == [i \in 1 .. n |-> Len(h) + 1]
               h1 == Append(h, Money(a, h[r].currency))
               l  == absolute(modulus(h[r].amount, n))
               v  == IF h[r].amount < 0 THEN -1 ELSE 1
           IN  [heap |-> AddLeftover(h1, ms, 1, l, v), refs |-> ms]

SplitObjects(h, r, n) ==
    IF n <= 0
      THEN [heap |-> h, refs |-> <<>>]
      ELSE LET a  == divide(h[r].amount, n)
               ms == [i \in 1 .. n |-> Len(h) + i]
               h1 == h \o [i \in 1 .. n |-> Money(a, h[r].currency)]
               l  == absolute(modulus(h[r].amount, n))
               v  == IF h[r].amount < 0 THEN -1 ELSE 1
           IN  IF l > n
                 THEN [heap |-> h1, refs |-> <<>>]
                 ELSE [heap |-> AddLeftover(h1, ms, 1, l, v), refs |-> ms]

AllocateObjects(h, r, rs) ==
    IF Len(rs) = 0 \/ \E i \in 1 .. Len(rs) : rs[i] < 0
      THEN [heap |-> h, refs |-> <<>>]
      ELSE LET sum   == SumRatios(rs)
               ms    == [i \in 1 .. Len(rs) |-> Len(h) + i]
               h1    == h \o [i \in 1 .. Len(rs) |->
                                Money(allocate(h[r].amount, rs[i], sum), h[r].currency)]
               total == SumAmounts(SubSeq(h1, Len(h) + 1, Len(h1)))
               lo    == h[r].amount - total
               sub   == IF lo < 0 THEN -1 ELSE 1
           IN  IF sum = 0
                 THEN [heap |-> h1, refs |-> ms]
                 ELSE IF absolute(lo) > Len(rs)
                   THEN [heap |-> h1, refs |-> <<>>]
                   ELSE [heap |-> AddLeftover(h1, ms, 1, absolute(lo), sub), refs |-> ms]

(* The operations on objects are explored while fewer than MaxObjects     *)
(* objects exist.                                                          *)
Room(k) == Len(heap) < MaxObjects

ObjNew ==
    /\ Room(1)
    /\ \E a \in ObjectAmounts, c \in ObjectCodes :
         /\ heap' = Returned(heap, New(registry, a, c)).heap
         /\ hres' = Returned(heap, New(registry, a, c)).refs
    /\ hop' = "New"
    /\ hrecv' = 0
    /\ UNCHANGED call

ObjAbsolute ==
    /\ Room(1)
    /\ \E r \in DOMAIN heap :
         /\ heap' = Returned(heap, Absolute(heap[r])).heap
         /\ hres' = Returned(heap, Absolute(heap[r])).refs
         /\ hrecv' = r
    /\ hop' = "Absolute"
    /\ UNCHANGED call

ObjNegative ==
    /\ Room(1)
    /\ \E r \in DOMAIN heap :
         /\ heap' = Returned(heap, Negative(heap[r])).heap
         /\ hres' = Returned(heap, Negative(heap[r])).refs
         /\ hrecv' = r
    /\ hop' = "Negative"
    /\ UNCHANGED call

ObjAdd ==
    /\ Room(1)
    /\ \E r \in DOMAIN heap, o \in DOMAIN heap :
         /\ heap' = Returned(heap, Add(heap[r], heap[o])).heap
         /\ hres' = Returned(heap, Add(heap[r], heap[o])).refs
         /\ hrecv' = r
    /\ hop' = "Add"
    /\ UNCHANGED call

ObjSubtract ==
    /\ Room(1)
    /\ \E r \in DOMAIN heap, o \in DOMAIN heap :
         /\ heap' = Returned(heap, Subtract(heap[r], heap[o])).heap
         /\ hres' = Returned(heap, Subtract(heap[r], heap[o])).refs
         /\ hrecv' = r
    /\ hop' = "Subtract"
    /\ UNCHANGED call

ObjMultiply ==
    /\ Room(1)
    /\ \E r \in DOMAIN heap, mul \in Multipliers :
         /\ heap' = Returned(heap, Multiply(heap[r], mul)).heap
         /\ hres' = Returned(heap, Multiply(heap[r], mul)).refs
         /\ hrecv' = r
    /\ hop' = "Multiply"
    /\ UNCHANGED call

ObjRound ==
    /\ Room(1)
    /\ \E r \in DOMAIN heap :
         /\ heap' = Returned(heap, Round(registry, heap[r])).heap
         /\ hres' = Returned(heap, Round(registry, heap[r])).refs
         /\ hrecv' = r
    /\ hop' = "Round"
    /\ UNCHANGED call

ObjSplit ==
    /\ \E r \in DOMAIN heap, n \in ObjectSplitCounts :
         /\ Room(n)
         /\ heap' = SplitObjects(heap, r, n).heap
         /\ hres' = SplitObjects(heap, r, n).refs
         /\ hrecv' = r
    /\ hop' = "Split"
    /\ UNCHANGED call

ObjAllocate ==
    /\ \E r \in DOMAIN heap, rs \in ObjectRatioLists :
         /\ Room(Len(rs))
         /\ heap' = AllocateObjects(heap, r, rs).heap
         /\ hres' = AllocateObjects(heap, r, rs).refs
         /\ hrecv' = r
    /\ hop' = "Allocate"
    /\ UNCHANGED call

NextObjects ==
    \/ ObjNew
    \/ ObjAbsolute
    \/ ObjNegative
    \/ ObjAdd
    \/ ObjSubtract
    \/ ObjMultiply
    \/ ObjRound
    \/ ObjSplit
    \/ ObjAllocate

SpecObjects == Init /\ [][NextObjects]_vars

----------------------------------------------------------------------------
(* Properties                                                              *)

Items == ret.list.items

Sign(a) == IF a < 0 THEN -1 ELSE IF a > 0 THEN 1 ELSE 0

(* Quotient truncated toward zero.                                         *)
Trunc(a, n) == Sign(a) * (absolute(a) \div n)

ValidRatios(rs) == Len(rs) > 0 /\ \A i \in 1 .. Len(rs) : rs[i] >= 0

BinaryOps == {"Equals", "GreaterThan", "GreaterThanOrEqual", "LessThan",
              "LessThanOrEqual", "Compare", "Add", "Subtract"}

BoolOps == {"Equals", "GreaterThan", "GreaterThanOrEqual", "LessThan",
            "LessThanOrEqual"}

(* C1: for every amount and every n > 0, Split(n) returns n amounts that   *)
(* sum exactly to the receiver's amount.                                   *)
C1_SplitConservation ==
    (op = "Split" /\ arg.n > 0) =>
        /\ ret.err = NoErr
        /\ ~ret.list.nil
        /\ Len(Items) = arg.n
        /\ SumAmounts(Items) = m.amount

C1_Witness ==
    /\ op = "Split"
    /\ m.amount = -101
    /\ arg.n = 4
    /\ Len(Items) = 4
    /\ Items[1].amount # Items[4].amount
    /\ SumAmounts(Items) = -101

(* C2 as stated: for every amount and every valid ratio list (non-empty,   *)
(* no negative ratio) the amounts Allocate returns sum to the amount.      *)
C2_AllocateConservationAnyRatios ==
    (op = "Allocate" /\ ValidRatios(arg.rs)) =>
        /\ ret.err = NoErr
        /\ SumAmounts(Items) = m.amount

(* C2 amended: for every amount and every valid ratio list whose ratios    *)
(* are not all zero, Allocate returns one amount per ratio and they sum    *)
(* exactly to the amount; when all ratios are zero every amount returned   *)
(* is 0.                                                                   *)
C2_AllocateConservation ==
    (op = "Allocate" /\ ValidRatios(arg.rs)) =>
        /\ ret.err = NoErr
        /\ Len(Items) = Len(arg.rs)
        /\ SumRatios(arg.rs) # 0 => SumAmounts(Items) = m.amount
        /\ SumRatios(arg.rs) = 0 => \A i \in 1 .. Len(Items) : Items[i].amount = 0

C2_Witness ==
    /\ op = "Allocate"
    /\ m.amount = -100
    /\ arg.rs = <<1, 1, 1>>
    /\ Items[1].amount = -34
    /\ SumAmounts(Items) = -100

(* C3: the eight binary operations return ErrCurrencyMismatch exactly when *)
(* the two currency codes differ, and then Add and Subtract return a nil   *)
(* Money, the five boolean comparisons return false and Compare returns    *)
(* the receiver's amount.                                                  *)
C3_CurrencySafety ==
    op \in BinaryOps =>
        /\ ret.err \in {NoErr, ErrCurrencyMismatch}
        /\ (ret.err = ErrCurrencyMismatch) <=> (m.currency # arg.om.currency)
        /\ m.currency # arg.om.currency =>
             /\ op \in {"Add", "Subtract"} => ret.money.nil
             /\ op \in BoolOps => ret.bool = FALSE
             /\ op = "Compare" => ret.int = m.amount
        /\ (m.currency = arg.om.currency /\ op \in {"Add", "Subtract"}) => ~ret.money.nil

C3_Witness ==
    /\ op = "Compare"
    /\ m.currency # arg.om.currency
    /\ m.amount = 123456
    /\ ret.err = ErrCurrencyMismatch
    /\ ret.int = 123456

C5_SplitFairness ==
    (op = "Split" /\ arg.n > 0) =>
        LET a == m.amount
            k == absolute(a) % arg.n
        IN  /\ Len(Items) = arg.n
            /\ \A i \in 1 .. Len(Items) :
                 Items[i].amount = Trunc(a, arg.n) + (IF i <= k THEN Sign(a) ELSE 0)
            /\ \A i, j \in 1 .. Len(Items) :
                 absolute(Items[i].amount - Items[j].amount) <= 1

C5_Witness ==
    /\ op = "Split"
    /\ m.amount = -2
    /\ arg.n = 3
    /\ Len(Items) = 3
    /\ Items[1].amount = -1
    /\ Items[2].amount = -1
    /\ Items[3].amount = 0

(* The shape [-]I or [-]I<sep>F of a text: Unsigned is the text without    *)
(* its leading "-", IPart and FPart the digit strings around the           *)
(* separator.                                                              *)
Negated(text) == text # <<>> /\ text[1] = "-"

Unsigned(text) == IF Negated(text) THEN Tail(text) ELSE text

SepPositions(s, sep) == {i \in 1 .. Len(s) : s[i] = sep}

PlainNumeric(text, sep) ==
    LET b == Unsigned(text)
    IN  /\ Cardinality(SepPositions(b, sep)) <= 1
        /\ \A i \in 1 .. Len(b) : b[i] = sep \/ IsDigit(b[i])

IPart(text, sep) ==
    LET b == Unsigned(text)
    IN  IF SepPositions(b, sep) = {} THEN b
        ELSE SubSeq(b, 1, (CHOOSE i \in SepPositions(b, sep) : TRUE) - 1)

FPart(text, sep) ==
    LET b == Unsigned(text)
    IN  IF SepPositions(b, sep) = {} THEN <<>>
        ELSE SubSeq(b, (CHOOSE i \in SepPositions(b, sep) : TRUE) + 1, Len(b))

KeptDigits(text, cur) ==
    IPart(text, cur.Decimal)
    \o SubSeq(FPart(text, cur.Decimal), 1, Min(Len(FPart(text, cur.Decimal)), cur.Fraction))

ExpectedAmount(text, cur) ==
    (IF Negated(text) THEN -1 ELSE 1)
    * DigitsValue(KeptDigits(text, cur))
    * Pow10(cur.Fraction - Min(Len(FPart(text, cur.Decimal)), cur.Fraction))

Parsing == op = "NewFromString" /\ arg.code \in DOMAIN registry

(* C6 as stated: every text [-]I or [-]I<sep>F with a digit in it gives    *)
(* the integer whose digits are I and the first min(len(F), fraction)      *)
(* digits of F, times 10^(fraction - min(len(F), fraction)), with the sign *)
(* of the text, also when I is empty.                                      *)
C6_ValueOfEveryPlainText ==
    (/\ Parsing
     /\ PlainNumeric(arg.text, registry[arg.code].Decimal)
     /\ IPart(arg.text, registry[arg.code].Decimal)
          \o FPart(arg.text, registry[arg.code].Decimal) # <<>>) =>
        /\ ret.err = NoErr
        /\ ret.money = Money(ExpectedAmount(arg.text, registry[arg.code]), arg.code)

(* C6 amended: the same value, for the texts in which I followed by the    *)
(* kept fraction digits has at least one digit; with no digit there (I     *)
(* empty and no fraction digit kept) the result is the invalid-amount      *)
(* error and no Money.                                                     *)
C6_NewFromStringValue ==
    (Parsing /\ PlainNumeric(arg.text, registry[arg.code].Decimal)) =>
        IF KeptDigits(arg.text, registry[arg.code]) # <<>>
          THEN /\ ret.err = NoErr
               /\ ret.money = Money(ExpectedAmount(arg.text, registry[arg.code]), arg.code)
          ELSE /\ ret.err = ErrInvalidAmount
               /\ ret.money.nil

C6_Witness ==
    /\ op = "NewFromString"
    /\ arg.code = "DEC"
    /\ arg.text = <<"-", ",", "1", "0">>
    /\ ret.err = NoErr
    /\ ret.money = Money(-1, "DEC")

(* C7: for a known currency every text that is not an optional "-", digits *)
(* and at most one decimal separator yields the invalid-amount error and   *)
(* no Money.                                                               *)
C7_OnlyPlainNumericAccepted ==
    (Parsing /\ ~PlainNumeric(arg.text, registry[arg.code].Decimal)) =>
        /\ ret.err = ErrInvalidAmount
        /\ ret.money.nil

(* C8: for every currency and amount whose Amount() text has no thousand   *)
(* grouping, NewFromString of that text succeeds and yields the amount.    *)
C8_RoundTrip ==
    (/\ op = "NewFromString"
     /\ arg.from = "Amount"
     /\ \/ registry[m.currency].Thousand = ""
        \/ absolute(m.amount) < 1000 * Pow10(registry[m.currency].Fraction)) =>
        /\ ret.err = NoErr
        /\ ret.money = Money(m.amount, m.currency)

C8_Witness ==
    /\ op = "NewFromString"
    /\ arg.from = "Amount"
    /\ m = Money(-5, "USD")
    /\ arg.text = <<"-", "0", ".", "0", "5">>
    /\ ret.money = Money(-5, "USD")

(* C9: with equal currency codes the comparisons follow the integer order  *)
(* of the amounts with a nil error: Compare is 1, 0 or -1, Equals,         *)
(* GreaterThan, GreaterThanOrEqual, LessThan and LessThanOrEqual are       *)
(* =, >, >=, < and <=, and exactly one of LessThan, Equals, GreaterThan    *)
(* is true.                                                                *)
C9_ComparisonOrder ==
    (op \in BoolOps \cup {"Compare"} /\ m.currency = arg.om.currency) =>
        LET a == m.amount
            b == arg.om.amount
        IN  /\ ret.err = NoErr
            /\ op = "Compare" =>
                 ret.int = (IF a > b THEN 1 ELSE IF a = b THEN 0 ELSE -1)
            /\ op = "Equals" => ret.bool = (a = b)
            /\ op = "GreaterThan" => ret.bool = (a > b)
            /\ op = "GreaterThanOrEqual" => ret.bool = (a >= b)
            /\ op = "LessThan" => ret.bool = (a < b)
            /\ op = "LessThanOrEqual" => ret.bool = (a <= b)
            /\ Cardinality({f \in {"lt", "eq", "gt"} :
                   CASE f = "lt" -> LessThan(m, arg.om).bool
                     [] f = "eq" -> Equals(m, arg.om).bool
                     [] f = "gt" -> GreaterThan(m, arg.om).bool}) = 1

C9_Witness ==
    /\ op = "LessThan"
    /\ m.currency = arg.om.currency
    /\ m.amount < arg.om.amount
    /\ ret.bool
    /\ ret.err = NoErr

(* C10: Split(n) returns an error exactly when n <= 0; Allocate returns an *)
(* error exactly when the ratio list is empty or holds a negative ratio,   *)
(* at any position; an error always comes with a nil slice, and no error   *)
(* with a slice.                                                           *)
C10_ArgumentValidation ==
    /\ op = "Split" =>
         /\ (ret.err # NoErr) <=> (arg.n <= 0)
         /\ arg.n <= 0 => ret.err = ErrSplit
    /\ op = "Allocate" =>
         /\ (ret.err # NoErr) <=> ~ValidRatios(arg.rs)
         /\ Len(arg.rs) = 0 => ret.err = ErrNoRatios
         /\ (Len(arg.rs) > 0 /\ ~ValidRatios(arg.rs)) => ret.err = ErrNegativeRatio
    /\ op \in {"Split", "Allocate"} =>
         /\ ret.err # NoErr => (ret.list.nil /\ Items = <<>>)
         /\ ret.err = NoErr => ~ret.list.nil

C10_Witness ==
    /\ op = "Allocate"
    /\ arg.rs = <<1, 2, -1>>
    /\ ret.err = ErrNegativeRatio
    /\ ret.list.nil

(* C11: no call of Absolute, Negative, Add, Subtract, Multiply, Round,     *)
(* Split or Allocate, successful or failing, changes the amount or the     *)
(* currency of a Money that existed before it; every Money it returns is   *)
(* a new object, and the shares of Split and Allocate are pairwise         *)
(* distinct objects that hold the shares the operation computes.           *)
C11_OperandsImmutable ==
    [][/\ Len(heap') >= Len(heap)
       /\ \A i \in DOMAIN heap : heap'[i] = heap[i]
       /\ \A k \in DOMAIN hres' : hres'[k] \in DOMAIN heap' /\ hres'[k] \notin DOMAIN heap
       /\ \A j, k \in DOMAIN hres' : j # k => hres'[j] # hres'[k]
       /\ hop' = "Split" =>
            [k \in DOMAIN hres' |-> heap'[hres'[k]]] = Split(heap[hrecv'], Len(hres')).list.items
      ]_vars

C11_Witness ==
    /\ hop = "Split"
    /\ Len(hres) = 3
    /\ hrecv > 1
    /\ heap[hrecv].amount = -2
    /\ heap[hres[1]].amount = -1
    /\ heap[hres[3]].amount = 0

RegistryOverwritten ==
    /\ ~m.nil
    /\ registry[m.currency] # currencies[m.currency]
    /\ registry[m.currency].Fraction # currencies[m.currency].Fraction

NumDigits(n) == CHOOSE k \in 1 .. 9 : n < Pow10(k) /\ (k = 1 \/ n >= Pow10(k - 1))

(* num is the numeric text of amount a for the record cur: the digits of   *)
(* |a| padded to fraction+1 digits, the thousand separator before every    *)
(* group of 3 digits counted from the right of the integer part, and for   *)
(* fraction > 0 the decimal separator followed by the last fraction digits.*)
Rendered(num, cur, a) ==
    LET nd == IF NumDigits(absolute(a)) > cur.Fraction + 1
                THEN NumDigits(absolute(a)) ELSE cur.Fraction + 1
        ni == nd - cur.Fraction
        li == IF cur.Thousand = "" THEN ni ELSE ni + ((ni - 1) \div 3)
        ip == SubSeq(num, 1, li)
        fr == SubSeq(num, Len(num) - cur.Fraction + 1, Len(num))
    IN  /\ Len(num) = li + (IF cur.Fraction > 0 THEN 1 + cur.Fraction ELSE 0)
        /\ cur.Fraction > 0 => num[li + 1] = cur.Decimal
        /\ \A k \in 1 .. Len(fr) : IsDigit(fr[k])
        /\ \A k \in 1 .. li :
             IF cur.Thousand # "" /\ (li - k + 1) % 4 = 0
               THEN ip[k] = cur.Thousand
               ELSE IsDigit(ip[k])
        /\ DigitsValue(SelectSeq(ip, IsDigit) \o fr) = absolute(a)

(* The template's characters before and after its amount placeholder, the  *)
(* grapheme placeholder replaced by the grapheme.                          *)
RECURSIVE WithGrapheme(_, _)
WithGrapheme(t, g) ==
    IF t = <<>> THEN <<>>
    ELSE (IF Head(t) = "$" THEN g ELSE <<Head(t)>>) \o WithGrapheme(Tail(t), g)

BeforeAmount(cur) ==
    WithGrapheme(SubSeq(cur.Template, 1, Index(cur.Template, "1") - 1), cur.Grapheme)

AfterAmount(cur) ==
    WithGrapheme(SubSeq(cur.Template, Index(cur.Template, "1") + 1, Len(cur.Template)),
                 cur.Grapheme)

(* C13: Format returns "-" only for a negative amount, then the template   *)
(* with the amount placeholder replaced by the numeric text and the        *)
(* grapheme placeholder by the grapheme; FormatAmount returns the same     *)
(* sign and numeric text and nothing else.                                 *)
C13_FormatterRendering ==
    LET body == IF m.amount < 0 THEN Tail(ret.text) ELSE ret.text
        pre  == BeforeAmount(held)
        post == AfterAmount(held)
    IN  /\ op \in {"Display", "Amount"} =>
             /\ ret.text # <<>>
             /\ m.amount < 0 <=> ret.text[1] = "-"
        /\ op = "Display" =>
             /\ Len(body) > Len(pre) + Len(post)
             /\ SubSeq(body, 1, Len(pre)) = pre
             /\ SubSeq(body, Len(body) - Len(post) + 1, Len(body)) = post
             /\ Rendered(SubSeq(body, Len(pre) + 1, Len(body) - Len(post)), held, m.amount)
        /\ op = "Amount" => Rendered(body, held, m.amount)

C13_Witness ==
    /\ op = "Amount"
    /\ m = Money(-1234567, "USD")
    /\ ret.text = <<"-", "1", "2", ",", "3", "4", "5", ".", "6", "7">>

(* The text of a payload's string field, "" for a field that is absent.    *)
AmountField == IF arg.json.amount.kind = "string" THEN arg.json.amount.text ELSE <<>>

CurrencyField == IF arg.json.currency.kind = "string" THEN arg.json.currency.text ELSE ""

FieldNotString == arg.json.amount.kind = "other" \/ arg.json.currency.kind = "other"

(* What the decode does when it comes down to NewFromString.               *)
DecodedByNewFromString ==
    LET r == NewFromString(registry, AmountField, CurrencyField)
    IN  IF r.err = NoErr
          THEN ret.err = NoErr /\ m = r.money
          ELSE ret.err = r.err

(* C14 as stated: a field present and not a string fails with              *)
(* ErrInvalidJSON; both fields absent, or both the empty string, gives the *)
(* zero Money; every other payload, one with one field absent and the      *)
(* other the empty string included, gives what NewFromString gives.        *)
C14_ZeroOnlyWhenBothAlike ==
    op = "UnmarshalJSON" =>
        IF FieldNotString THEN ret.err = ErrInvalidJSON
        ELSE IF \/ arg.json = Payload(Absent, Absent)
                \/ arg.json = Payload(String(<<>>), String(""))
          THEN ret.err = NoErr /\ m = ZeroMoney
          ELSE DecodedByNewFromString

(* C14: a field present and not a string fails with ErrInvalidJSON; when   *)
(* each field is absent or the empty string the decode succeeds and the    *)
(* target becomes the zero Money whatever it held; otherwise the target    *)
(* becomes NewFromString(amount, currency) or the decode returns that      *)
(* constructor's error.                                                    *)
C14_DecodeOutcomes ==
    op = "UnmarshalJSON" =>
        IF FieldNotString THEN ret.err = ErrInvalidJSON
        ELSE IF AmountField = <<>> /\ CurrencyField = ""
          THEN ret.err = NoErr /\ m = ZeroMoney
          ELSE DecodedByNewFromString

C14_Witness ==
    /\ op = "UnmarshalJSON"
    /\ arg.om = Money(5, "USD")
    /\ arg.json = Payload(String(<<>>), Absent)
    /\ ret.err = NoErr
    /\ m = ZeroMoney

(* raw_i = trunc(a * ratio_i / S) for every party i.                       *)
RawShares(a, rs) == [i \in 1 .. Len(rs) |-> Trunc(a * rs[i], SumRatios(rs))]

(* leftover = a - sum(raw_i)                                               *)
Leftover(a, rs) == a - SumRatios(RawShares(a, rs))

(* C15: when the ratios sum to 0 every party receives 0; otherwise party i *)
(* (0-based, in ratio order) receives raw_i + sign(leftover) if            *)
(* i < |leftover| and raw_i otherwise, raw_i = trunc(a * ratio_i / S) and  *)
(* leftover = a - sum(raw_i).                                              *)
C15_AllocateResult ==
    (op = "Allocate" /\ ValidRatios(arg.rs)) =>
        /\ ret.err = NoErr
        /\ Len(Items) = Len(arg.rs)
        /\ \A i \in 1 .. Len(Items) :
             /\ Items[i].currency = m.currency
             /\ Items[i].amount =
                  IF SumRatios(arg.rs) = 0 THEN 0
                  ELSE IF i - 1 < absolute(Leftover(m.amount, arg.rs))
                    THEN RawShares(m.amount, arg.rs)[i] + Sign(Leftover(m.amount, arg.rs))
                    ELSE RawShares(m.amount, arg.rs)[i]

C15_Witness ==
    /\ op = "Allocate"
    /\ m.amount = -101
    /\ arg.rs = <<3, 2, 3>>
    /\ Leftover(m.amount, arg.rs) = -2
    /\ Items[1].amount = -38
    /\ Items[2].amount = -26
    /\ Items[3].amount = -37

(* The magnitude of a.                                                     *)
Magnitude(a) == IF a < 0 THEN 0 - a ELSE a

(* C16: Absolute returns a Money of the same currency with amount          *)
(* |m.amount|; Negative returns a Money of the same currency with amount   *)
(* -|m.amount|, never positive, and Negative of that result is the result. *)
C16_SignOperations ==
    /\ op = "Absolute" => ret.money = Money(Magnitude(m.amount), m.currency)
    /\ op = "Negative" =>
         /\ ret.money = Money(0 - Magnitude(m.amount), m.currency)
         /\ ret.money.amount <= 0
         /\ Negative(ret.money).money = ret.money

C16_Witness ==
    /\ op = "Negative"
    /\ m = Money(-5, "TWD")
    /\ ret.money = Money(-5, "TWD")

(* The parties that received more or less than the base share.             *)
Bumped(base) == {i \in 1 .. Len(Items) : Items[i].amount # base[i]}

(* C17: for every amount of the integer width, every n > 0 and every       *)
(* valid ratio list with non-zero sum, the product amount * ratio taken in *)
(* that width, the leftover loops of Split and Allocate index existing     *)
(* parties only: no index out of range, at most n-1 units handed out by    *)
(* Split and fewer than one per party by Allocate, at most one unit for a  *)
(* party.                                                                  *)
C17_LeftoverInBounds ==
    /\ (op = "Split" /\ arg.n > 0) =>
         /\ ret.err = NoErr
         /\ Cardinality(Bumped([i \in 1 .. arg.n |-> divide(m.amount, arg.n)])) <= arg.n - 1
         /\ \A i \in 1 .. Len(Items) :
              absolute(Items[i].amount - divide(m.amount, arg.n)) <= 1
    /\ (op = "Allocate" /\ ValidRatios(arg.rs) /\ SumRatios(arg.rs) # 0) =>
         /\ ret.err = NoErr
         /\ Cardinality(Bumped([i \in 1 .. Len(arg.rs) |->
                allocateInt(m.amount, arg.rs[i], SumRatios(arg.rs))])) < Len(arg.rs)
         /\ \A i \in 1 .. Len(Items) :
              absolute(Items[i].amount
                       - allocateInt(m.amount, arg.rs[i], SumRatios(arg.rs))) <= 1

ZeroRatioParties == {i \in 1 .. Len(arg.rs) : arg.rs[i] = 0}

Allocating == op = "Allocate" /\ ValidRatios(arg.rs) /\ SumRatios(arg.rs) # 0

(* C18 as stated: in Allocate with a non-zero ratio sum a party whose      *)
(* ratio is 0 receives 0, wherever it stands in the ratio list.            *)
C18_ZeroRatioReceivesNothing ==
    Allocating =>
        /\ ret.err = NoErr
        /\ \A i \in ZeroRatioParties : Items[i].amount = 0

(* C18: in Allocate with a non-zero ratio sum a party whose ratio is 0 has *)
(* a base share of 0 and receives 0 unless it stands among the first       *)
(* |leftover| parties of the ratio list, where it receives one unit of the *)
(* leftover's sign.                                                        *)
C18_ZeroRatioShare ==
    Allocating =>
        /\ ret.err = NoErr
        /\ \A i \in ZeroRatioParties :
             /\ allocate(m.amount, arg.rs[i], SumRatios(arg.rs)) = 0
             /\ Items[i].amount =
                  IF i <= absolute(Leftover(m.amount, arg.rs))
                    THEN Sign(Leftover(m.amount, arg.rs))
                    ELSE 0

C18_Witness ==
    /\ op = "Allocate"
    /\ m.amount = 1
    /\ arg.rs = <<0, 1, 1>>
    /\ Items[1].amount = 1
    /\ Items[2].amount = 0
    /\ Items[3].amount = 0

(* C19: for every Money, the zero Money and the amounts of 1000 major      *)
(* units or more in a currency with a thousand separator included,         *)
(* decoding what the default encoder wrote succeeds and gives a Money of   *)
(* the same amount and the same currency.                                  *)
C19_JSONRoundTrip ==
    op = "RoundTrip" =>
        /\ ret.err = NoErr
        /\ ret.money.amount = m.amount
        /\ ret.money.currency = m.currency

====
